---- MODULE Spec2Model ----
(***************************************************************************)
(* Quota-governed fetch-and-deduplicate pipeline of the job scraper.       *)
(*                                                                         *)
(* Time is counted in whole seconds since an arbitrary midnight; a date is *)
(* the number of whole days since then.  A datetime object is a record of  *)
(* its seconds and microseconds; the clock of the ledger ticks in whole    *)
(* seconds.  The quota state file (quota_state.json) is the only           *)
(* persistent state of the quota ledger: every admission reloads it and    *)
(* rewrites it.  It holds dates and datetimes as ISO strings, and a string *)
(* is modelled by its fields: the date, the time of day and the fraction   *)
(* printed.                                                                *)
(***************************************************************************)
EXTENDS Integers, Sequences, FiniteSets, TLC

VARIABLES
    clock,      \* datetime.now(), in seconds
    file,       \* content of quota_state.json
    disk,       \* "failing" while open(QUOTA_STATE_FILE, 'w') raises
    gate,       \* position of convert_plain_text_to_markdown_with_ai
    ret,        \* how the last call of the gate ended
    admits,     \* the timestamps recorded by the latest admissions (history)
    issued,     \* text-generation calls issued, per date of issue (history)
    run,        \* position of the crawl run (__main__)
    store,      \* the job records of the external store
    trip,       \* a quota state on its way through the file and back
    http,       \* position of the retry loop of one guest-source request
    listing,    \* position of the listing of the guest source
    search,     \* position of the listing of the board source
    procs       \* two processes in check_and_enforce_quota on one file

vars == <<clock, file, disk, gate, ret, admits, issued, run, store, trip, http, listing, search, procs>>

----------------------------------------------------------------------------
(* Program constants *)

MAX_REQUESTS_PER_MINUTE == 4
MAX_REQUESTS_PER_DAY == 20
SECONDS_BETWEEN_REQUESTS == 60 \div MAX_REQUESTS_PER_MINUTE
SecondsPerDay == 86400
\* timedelta(minutes=1) and the literal 60 of the RPM wait
OneMinute == 60
\* the "+ 1" of time.sleep(wait_time + 1)
RpmSafetyMargin == 1

(* Bounds of the model *)

\* a run issues at most MaxCalls text-generation calls
MaxCalls == 5

\* an earlier run of the day left Headroom admissions of the daily cap unused
Headroom == 3

\* the run starts Lead seconds before a midnight
Lead == 90
\* and the clock is not advanced by the environment past Horizon seconds
\* after that midnight
Horizon == 45

\* config.MAX_RETRIES and config.RETRY_DELAY_SECONDS
MAX_RETRIES == 2
RETRY_DELAY_SECONDS == 10

\* the longest timestamp list saved and loaded
MaxStamps == 2

\* the largest job identifier, and the longest listing, of a crawl
MaxId == 2
MaxListing == 2

\* config.LINKEDIN_MAX_START, the largest identifier on a page of search
\* results, and the most list items of a page
LINKEDIN_MAX_START == 20
MaxUrn == 3
MaxPage == 2

\* the most search requests of one listing of the board source, the most
\* items of one of its pages, and the number of next-page links
MaxPosts == 3
MaxResults == 1
MaxLink == 1

\* the calls of check_and_enforce_quota that two processes sharing the file
\* begin, together
MaxShared == 3

None == -1

DateOf(t) == t \div SecondsPerDay
Midnight == SecondsPerDay

Max0(a, b) == IF a >= b THEN a ELSE b

RECURSIVE MinSeq(_)
MinSeq(s) ==
    IF Len(s) = 1 THEN s[1]
    ELSE LET m == MinSeq(Tail(s)) IN IF s[1] <= m THEN s[1] ELSE m

RECURSIVE MaxSeq(_)
MaxSeq(s) ==
    IF Len(s) = 1 THEN s[1]
    ELSE LET m == MaxSeq(Tail(s)) IN IF s[1] >= m THEN s[1] ELSE m

----------------------------------------------------------------------------
(* ISO strings *)

\* JSON null
Null == [date |-> None, time |-> None, frac |-> None]

\* the datetime of a whole second
Whole(t) == [sec |-> t, micro |-> 0]

\* datetime.isoformat without the fraction, whatever the microseconds
isoformat_seconds(dt) ==
    [date |-> DateOf(dt.sec), time |-> dt.sec % SecondsPerDay, frac |-> None]

\* datetime.isoformat(): "YYYY-MM-DDTHH:MM:SS", followed by ".ffffff" when
\* the microseconds are not zero
isoformat(dt) ==
    [date |-> DateOf(dt.sec), time |-> dt.sec % SecondsPerDay,
     frac |-> IF dt.micro = 0 THEN None ELSE dt.micro]

\* date.isoformat(): "YYYY-MM-DD"
date_isoformat(d) == [date |-> d, time |-> None, frac |-> None]

\* datetime.fromisoformat(s): a string without time is the midnight of its
\* date, one without fraction has no microseconds
fromisoformat(s) ==
    [sec |-> s.date * SecondsPerDay + (IF s.time = None THEN 0 ELSE s.time),
     micro |-> IF s.frac = None THEN 0 ELSE s.frac]

\* datetime.fromisoformat(s).date()
ParseDate(s) == DateOf(fromisoformat(s).sec)

\* [datetime.fromisoformat(ts) for ts in strings]
FromIsoformatEach(strings) == [i \in 1..Len(strings) |-> fromisoformat(strings[i])]

\* [ts.isoformat() for ts in timestamps]
IsoformatEach(timestamps) == [i \in 1..Len(timestamps) |-> isoformat(timestamps[i])]

\* datetime objects of whole seconds, and their seconds
WholeEach(seconds) == [i \in 1..Len(seconds) |-> Whole(seconds[i])]
SecondsEach(timestamps) == [i \in 1..Len(timestamps) |-> timestamps[i].sec]

----------------------------------------------------------------------------
(* The quota state file *)

\* kind: "absent"   no file
\*       "corrupt"  not parseable as JSON, not a JSON object, or a timestamp
\*                  that is no ISO string
\*       "nofields" a JSON object without daily_request_count and
\*                  daily_reset_date
\*       "ok"       a record written by save_quota_state
NoFile == [kind |-> "absent", daily_request_count |-> 0,
           daily_reset_date |-> Null, request_timestamps |-> <<>>]
CorruptFile == [NoFile EXCEPT !.kind = "corrupt"]
NoFieldsFile == [NoFile EXCEPT !.kind = "nofields"]

\* the dictionary load_quota_state returns: keys are the keys present,
\* ts_type the Python type of the elements of request_timestamps; the
\* reset date is the string of the file (or null), the timestamps are
\* datetime objects
FreshState == [keys |-> {"daily_request_count", "daily_reset_date", "request_timestamps"},
               daily_request_count |-> 0, daily_reset_date |-> Null,
               request_timestamps |-> <<>>, ts_type |-> "datetime"]

load_quota_state(f) ==
    CASE f.kind = "absent" -> FreshState
      [] f.kind = "corrupt" -> FreshState
      [] f.kind = "nofields" ->
            [FreshState EXCEPT !.keys = {"request_timestamps"}]
      [] OTHER ->
            [FreshState EXCEPT !.daily_request_count = f.daily_request_count,
                               !.daily_reset_date = f.daily_reset_date,
                               !.request_timestamps =
                                    FromIsoformatEach(f.request_timestamps)]

\* the file after save_quota_state(daily_count, reset_date, timestamps),
\* reset_date a date or None, timestamps datetime objects
save_quota_state(f, w, daily_count, reset_date, timestamps) ==
    IF w
    THEN [kind |-> "ok", daily_request_count |-> daily_count,
          daily_reset_date |-> IF reset_date # None THEN date_isoformat(reset_date)
                               ELSE Null,
          request_timestamps |-> IsoformatEach(timestamps)]
    ELSE f

\* no state is on its way
NoTrip == [pc |-> "none", daily_count |-> 0, reset_date |-> None,
           timestamps |-> <<>>, loaded |-> FreshState]

\* save_quota_state(daily_count, reset_date, timestamps) on a writable file
SaveState(daily_count, reset_date, timestamps) ==
    /\ trip.pc \in {"none", "loaded"}
    /\ file' = save_quota_state(file, TRUE, daily_count, reset_date, timestamps)
    /\ trip' = [NoTrip EXCEPT !.pc = "saved", !.daily_count = daily_count,
                              !.reset_date = reset_date,
                              !.timestamps = timestamps]
    /\ UNCHANGED <<clock, disk, gate, ret, admits, issued, run, store, http, listing, search, procs>>

\* load_quota_state() on the file just saved
LoadState ==
    /\ trip.pc = "saved"
    /\ trip' = [trip EXCEPT !.pc = "loaded", !.loaded = load_quota_state(file)]
    /\ UNCHANGED <<clock, file, disk, gate, ret, admits, issued, run, store, http, listing, search, procs>>

----------------------------------------------------------------------------
(* The retry loop of a guest-source request *)

\* pc: "none" (no request yet), "trying" (in the while loop), "done";
\* kind: "listing" (a search results page) or "detail" (a job posting);
\* res: "response" or "failed" (res is None / return None);  attempts: the
\* requests.get calls made;  answers: what the server answered to each
\* (history)
NoRequest == [pc |-> "none", kind |-> "none", retries |-> 0, attempts |-> 0,
              res |-> "none", answers |-> <<>>]

\* the answers that make requests.get or raise_for_status raise:
\* HTTPError with its status, or another RequestException
HttpErrors == {"429", "404"}
RequestErrors == {"timeout", "transport"}
Answers == {"ok"} \union HttpErrors \union RequestErrors

\* the bound of the retries compared with <= instead of <
MayRetry_inclusive(status, retries) == status = "429" /\ retries <= MAX_RETRIES

\* "if e.response.status_code == 429 and retries < config.MAX_RETRIES"
MayRetry(status, retries) == status = "429" /\ retries < MAX_RETRIES

\* the sleep before the request (time.sleep(sleep_time)), then
\* "res = None; retries = 0"
EnterRetryLoop(kind, sleep_time) ==
    /\ http.pc \in {"none", "done"}
    /\ clock' = clock + sleep_time
    /\ http' = [NoRequest EXCEPT !.pc = "trying", !.kind = kind]
    /\ UNCHANGED <<file, disk, gate, ret, admits, issued, run, store, trip, search, procs>>

\* a request outside the listing loop
BeginRequest(kind, sleep_time) ==
    /\ EnterRetryLoop(kind, sleep_time)
    /\ UNCHANGED listing

\* One turn of "while retries <= config.MAX_RETRIES": the request and what
\* its answer leads to.  The loop is left with the response, with a failure,
\* or, after a retry that exhausts the condition, with res still None.
Attempt(answer, jitter) ==
    /\ http.pc = "trying"
    /\ LET h == [http EXCEPT !.attempts = @ + 1, !.answers = Append(@, answer)]
       IN IF answer = "ok"
          THEN /\ http' = [h EXCEPT !.pc = "done", !.res = "response"]
               /\ UNCHANGED clock
          ELSE IF answer \in HttpErrors /\ MayRetry(answer, http.retries)
          THEN /\ http' = IF http.retries + 1 <= MAX_RETRIES
                          THEN [h EXCEPT !.retries = @ + 1]
                          ELSE [h EXCEPT !.retries = @ + 1, !.pc = "done",
                                         !.res = "failed"]
               /\ clock' = clock + RETRY_DELAY_SECONDS + jitter
          ELSE /\ http' = [h EXCEPT !.pc = "done", !.res = "failed"]
               /\ UNCHANGED clock
    /\ UNCHANGED <<file, disk, gate, ret, admits, issued, run, store, trip, listing, search, procs>>

----------------------------------------------------------------------------
(* _fetch_linkedin_job_ids: the pages of search results *)

\* a page of search results: its text empty or not, and for each li element
\* of it the job identifier of its URN, None when the element has no
\* base-card, no URN of a job posting, or a URN that does not split
NoPageText == [text |-> FALSE, li |-> <<>>]

\* pc: "idle" (not called), "loop" (at "while start <= max_start"),
\* "request" (in the retry loop of a page), "returned";  asked: the start=
\* offsets of the pages requested (history);  page: the page read, until the
\* next one is requested;
\* cause: the test that ended the loop (history)
NoListing == [pc |-> "idle", start |-> 0, job_ids_list |-> <<>>,
              asked |-> <<>>, page |-> NoPageText, cause |-> "none"]

\* "job_ids_list = []; start = 0"
CalledListing == [NoListing EXCEPT !.pc = "loop"]

\* "if jobid not in job_ids_list: job_ids_list.append(jobid)", for each li
\* element in turn
RECURSIVE ExtractIds(_, _)
ExtractIds(job_ids_list, li) ==
    IF li = <<>> THEN job_ids_list
    ELSE LET jobid == Head(li)
             seen == \E i \in 1..Len(job_ids_list) : job_ids_list[i] = jobid
         IN ExtractIds(IF jobid = None \/ seen THEN job_ids_list
                       ELSE Append(job_ids_list, jobid), Tail(li))

\* the loop going on after a page that added no identifier
NothingNew_never(jobs_found_this_iteration, li) == FALSE

\* "if jobs_found_this_iteration == 0 and len(all_jobs_on_this_page) > 0"
NothingNew(jobs_found_this_iteration, li) ==
    jobs_found_this_iteration = 0 /\ Len(li) > 0

\* the loop going on whatever the offset
WithinMaxStart_always(start) == TRUE

\* "while start <= max_start"
WithinMaxStart(start) == start <= LINKEDIN_MAX_START

\* the top of "while start <= max_start": the sleep and the entry of the
\* retry loop for the page at start, or the end of the loop
PageRequest(sleep_time) ==
    /\ listing.pc = "loop"
    /\ IF WithinMaxStart(listing.start)
       THEN /\ EnterRetryLoop("listing", sleep_time)
            /\ listing' = [listing EXCEPT !.pc = "request", !.page = NoPageText,
                                          !.asked = Append(@, listing.start)]
       ELSE /\ listing' = [listing EXCEPT !.pc = "returned",
                                          !.cause = "max_start"]
            /\ UNCHANGED <<clock, file, disk, gate, ret, admits, issued, run,
                           store, trip, http, search, procs>>

\* after the retry loop: the four breaks, or the identifiers of the page
\* and "start += 10"
ReadPage(page) ==
    /\ listing.pc = "request"
    /\ http.pc = "done"
    /\ http.res = "failed" => page = NoPageText
    /\ LET Return(cause) == [listing EXCEPT !.pc = "returned", !.cause = cause,
                                            !.page = page]
           extended == ExtractIds(listing.job_ids_list, page.li)
           jobs_found_this_iteration == Len(extended) - Len(listing.job_ids_list)
       IN listing' =
            IF http.res = "failed" THEN Return("failed")
            ELSE IF ~page.text THEN Return("empty_text")
            ELSE IF page.li = <<>> THEN Return("no_items")
            ELSE IF NothingNew(jobs_found_this_iteration, page.li)
                 THEN [Return("nothing_new") EXCEPT !.job_ids_list = extended]
            ELSE [listing EXCEPT !.pc = "loop", !.job_ids_list = extended,
                                 !.start = @ + 10, !.page = page]
    /\ UNCHANGED <<clock, file, disk, gate, ret, admits, issued, run, store,
                   trip, http, search, procs>>

----------------------------------------------------------------------------
(* _fetch_careers_future_jobs: the pages of the board source *)

\* f"{careers_future_search_api_base_url}?limit=100&page=0"; the links the
\* server supplies are 1, 2, ...
FirstPage == 0

\* pc: "idle" (not called), "suggest" (before the skill suggestions),
\* "search" (at "while current_search_url"), "returned", "raised";
\* posted: the URL of the last search request;  answer, linked, held, total:
\* the kind of the last search response, the next-page link it carried (None
\* for none), the number of its items and the total it reported (history)
NoSearch == [pc |-> "idle", current_search_url |-> None, all_job_items |-> <<>>,
             total_api_calls_for_search |-> 0, posted |-> None,
             answer |-> "none", linked |-> None, held |-> 0, total |-> 0,
             value |-> <<>>]

CalledSearch == [NoSearch EXCEPT !.pc = "suggest"]

\* what makes requests.post, raise_for_status or .json() raise an exception
\* that the function handles
SearchErrors == {"http_error", "request_error", "bad_json"}

\* a search response: JSON with "results", "total" and, in "_links", the
\* link of the next page (None: no "next", or no "href" in it)
SearchResult(results, total, next) ==
    [kind |-> "ok", results |-> results, total |-> total, next |-> next]

\* a response of the kind given, with nothing to read in it
Unread(kind) == [kind |-> kind, results |-> <<>>, total |-> 0, next |-> None]

\* the pagination ending at a page without items
NextUrl_unless_empty(search_results_data) ==
    IF search_results_data.results = <<>> THEN None ELSE search_results_data.next

\* search_results_data.get("_links", {}).get("next", {}), then
\* next_page_link_info.get("href") if next_page_link_info else None
NextUrl(search_results_data) == search_results_data.next

\* 1. the skill suggestions: a failure returns []
SuggestSkills(answer) ==
    /\ search.pc = "suggest"
    /\ search' = IF answer \in SearchErrors
                 THEN [search EXCEPT !.pc = "returned", !.value = <<>>]
                 ELSE [search EXCEPT !.pc = "search",
                                     !.current_search_url = FirstPage]
    /\ UNCHANGED <<clock, file, disk, gate, ret, admits, issued, run, store,
                   trip, http, listing, procs>>

\* one turn of "while current_search_url": the request, what its response
\* adds, the next URL; with the test of the loop and, when it ends or the
\* request fails, "return all_job_items".  A response whose "_links" is
\* null raises AttributeError, which the function does not handle.
SearchPost(response) ==
    /\ search.pc = "search"
    /\ search.total_api_calls_for_search < MaxPosts
    /\ LET s == [search EXCEPT !.total_api_calls_for_search = @ + 1,
                               !.posted = search.current_search_url,
                               !.answer = response.kind,
                               !.linked = response.next,
                               !.held = Len(response.results),
                               !.total = response.total]
           items == search.all_job_items \o response.results
       IN search' =
            IF response.kind \in SearchErrors
            THEN [s EXCEPT !.pc = "returned", !.value = search.all_job_items]
            ELSE IF response.kind = "null_links"
            THEN [s EXCEPT !.pc = "raised", !.all_job_items = items]
            ELSE IF NextUrl(response) # None
            THEN [s EXCEPT !.all_job_items = items,
                           !.current_search_url = NextUrl(response)]
            ELSE [s EXCEPT !.pc = "returned", !.all_job_items = items,
                           !.current_search_url = None, !.value = items]
    /\ UNCHANGED <<clock, file, disk, gate, ret, admits, issued, run, store,
                   trip, http, listing, procs>>

----------------------------------------------------------------------------
(* check_and_enforce_quota: the admission *)

\* the comparison of the pruning turned round: the old timestamps are kept
PruneTimestamps_reversed(timestamps, current_time) ==
    LET one_minute_ago == current_time - OneMinute
        Old(ts) == ts < one_minute_ago
    IN SelectSeq(timestamps, Old)

\* request_timestamps = [ts for ts in request_timestamps if ts > one_minute_ago]
PruneTimestamps(timestamps, current_time) ==
    LET one_minute_ago == current_time - OneMinute
        Recent(ts) == ts > one_minute_ago
    IN SelectSeq(timestamps, Recent)

\* mutant: the daily cap is never reached
DailyLimitReached_never(daily_request_count, cap) == FALSE

\* the cap compared with > instead of >=
DailyLimitReached_strict(daily_request_count, cap) == daily_request_count > cap

\* "if daily_request_count >= MAX_REQUESTS_PER_DAY"
DailyLimitReached(daily_request_count, cap) == daily_request_count >= cap

\* mutant: only a missing date starts a new day
IsNewDay_absent(daily_reset_date, current_time) == daily_reset_date = None

\* "if daily_reset_date is None or current_time.date() > daily_reset_date"
IsNewDay(daily_reset_date, current_time) ==
    daily_reset_date = None \/ DateOf(current_time) > daily_reset_date

\* a rejected call giving back one call of the day, as a release does
RejectedFile_refunded(f) ==
    [f EXCEPT !.daily_request_count = Max0(0, @ - 1)]

\* "return False" for the daily limit: nothing is saved, the file stays as
\* it was loaded
RejectedFile(f) == f

\* the seconds the RPM check sleeps (0: no sleep)
RpmSleep(timestamps, current_time) ==
    IF Len(timestamps) >= MAX_REQUESTS_PER_MINUTE
    THEN LET oldest_request == MinSeq(timestamps)
             wait_time == OneMinute - (current_time - oldest_request)
         IN IF wait_time > 0 THEN wait_time + RpmSafetyMargin ELSE 0
    ELSE 0

\* no sleep for the minimum spacing
SpacingSleep_none(timestamps, current_time) == 0

\* the seconds the minimum-spacing check sleeps (0: no sleep)
SpacingSleep(timestamps, current_time) ==
    IF timestamps # <<>>
    THEN LET last_request == MaxSeq(timestamps)
             elapsed == current_time - last_request
         IN IF elapsed < SECONDS_BETWEEN_REQUESTS
            THEN SECONDS_BETWEEN_REQUESTS - elapsed
            ELSE 0
    ELSE 0

\* One call of check_and_enforce_quota() at time now on file f (writable iff
\* w), against the daily cap of the calling module.  time.sleep returns on
\* time and datetime.now() is read at once: a later reading only moves the
\* recorded timestamp further from the earlier ones.
\*   raised   "KeyError" when the loaded dictionary lacks a key, else "none"
\*   allowed  the value returned
\*   file     the file afterwards,  clock  the time afterwards
\*   stamp    the timestamp recorded,  newday  whether the counter was reset
\*   full     whether the pruned list held MAX_REQUESTS_PER_MINUTE entries,
\*   oldest   the oldest of them
check_and_enforce_quota(f, w, now, cap) ==
    LET state == load_quota_state(f)
    IN IF ~({"daily_request_count", "daily_reset_date"} \subseteq state.keys)
       THEN [raised |-> "KeyError", allowed |-> FALSE, file |-> f,
             clock |-> now, stamp |-> None, newday |-> FALSE,
             full |-> FALSE, oldest |-> None]
       ELSE
       LET daily_reset_date == IF state.daily_reset_date # Null
                               THEN ParseDate(state.daily_reset_date) ELSE None
           newday == IsNewDay(daily_reset_date, now)
           count1 == IF newday THEN 0 ELSE state.daily_request_count
           date1 == IF newday THEN DateOf(now) ELSE daily_reset_date
           ts1 == IF newday THEN <<>> ELSE SecondsEach(state.request_timestamps)
       IN IF DailyLimitReached(count1, cap)
          THEN [raised |-> "none", allowed |-> FALSE, file |-> RejectedFile(f),
                clock |-> now, stamp |-> None, newday |-> newday,
                full |-> FALSE, oldest |-> None]
          ELSE
          LET ts2 == PruneTimestamps(ts1, now)
              time1 == now + RpmSleep(ts2, now)
              time2 == time1 + SpacingSleep(ts2, time1)
              ts3 == Append(ts2, time2)
              count2 == count1 + 1
              full == Len(ts2) >= MAX_REQUESTS_PER_MINUTE
          IN [raised |-> "none", allowed |-> TRUE,
              file |-> save_quota_state(f, w, count2, date1, WholeEach(ts3)),
              clock |-> time2, stamp |-> time2, newday |-> newday,
              full |-> full, oldest |-> IF full THEN MinSeq(ts2) ELSE None]

----------------------------------------------------------------------------
(* Two processes sharing quota_state.json *)

\* two runs of scraper.py started in the same directory
Procs == {"first", "second"}

\* at: when the process read the file and the time (None: it is not in
\* check_and_enforce_quota);  seen: the file as it read it;  calls: the
\* calls of check_and_enforce_quota begun;  granted: the timestamps of the
\* calls allowed, by either process (history)
NoProcs == [at |-> [p \in Procs |-> None], seen |-> [p \in Procs |-> NoFile],
            calls |-> 0, granted |-> <<>>]

\* the file locked from the load to the save: the decision is taken on the
\* file as it is at the save
StateUsed_locked(seen, current) == current

\* "state = load_quota_state()" at the entry: the decision and the state
\* saved are computed from the file as it was read then
StateUsed(seen, current) == seen

\* "state = load_quota_state() ... current_time = datetime.now()"
LoadBy(p) ==
    /\ procs.at[p] = None
    /\ procs.calls < MaxShared
    /\ procs' = [procs EXCEPT !.at[p] = clock, !.seen[p] = file,
                              !.calls = @ + 1]
    /\ UNCHANGED <<clock, file, disk, gate, ret, admits, issued, run, store,
                   trip, http, listing, search>>

\* the rest of check_and_enforce_quota: the tests, the sleeps, the save and
\* the return.  The save is not earlier than the end of the sleeps.
DecideBy(p) ==
    /\ procs.at[p] # None
    /\ LET r == check_and_enforce_quota(StateUsed(procs.seen[p], file), TRUE,
                                        procs.at[p], MAX_REQUESTS_PER_DAY)
       IN /\ r.raised = "none"
          /\ file' = IF r.allowed THEN r.file ELSE file
          /\ clock' = Max0(clock, r.clock)
          /\ procs' = [procs EXCEPT !.at[p] = None,
                                    !.granted = IF r.allowed THEN Append(@, r.stamp)
                                                ELSE @]
    /\ UNCHANGED <<disk, gate, ret, admits, issued, run, store, trip, http,
                   listing, search>>

----------------------------------------------------------------------------
(* The compensation after a failed text-generation call ("release"):      *)
(* the except branch of convert_plain_text_to_markdown_with_ai.            *)

\* as if the loaded timestamps were still strings
FromIsoformatAll_accepts(timestamps, ts_type) == "none"

\* datetime.fromisoformat(ts) for every element: a TypeError unless the
\* elements are strings
FromIsoformatAll(timestamps, ts_type) ==
    IF timestamps # <<>> /\ ts_type # "str" THEN "TypeError" ELSE "none"

\*   raised  "KeyError", "TypeError" or "none";  file  the file afterwards
release_quota(f, w) ==
    LET state == load_quota_state(f)
    IN IF ~("daily_request_count" \in state.keys)
       THEN [raised |-> "KeyError", file |-> f]
       ELSE
       LET count1 == Max0(0, state.daily_request_count - 1)
       IN IF ~("daily_reset_date" \in state.keys)
          THEN [raised |-> "KeyError", file |-> f]
          ELSE IF FromIsoformatAll(state.request_timestamps, state.ts_type) # "none"
          THEN [raised |-> "TypeError", file |-> f]
          ELSE [raised |-> "none",
                file |-> save_quota_state(f, w, count1,
                            IF state.daily_reset_date # Null
                            THEN ParseDate(state.daily_reset_date) ELSE None,
                            state.request_timestamps)]

----------------------------------------------------------------------------
(* convert_plain_text_to_markdown_with_ai: the enrichment gate *)

\* A string is the sequence of its characters; a missing name (None) and
\* the empty string, which the code treats alike, are both <<>>.
Lower(c) == IF c = "A" THEN "a" ELSE IF c = "D" THEN "d" ELSE c

\* str.lower
lower(s) == [i \in 1..Len(s) |-> Lower(s[i])]

\* mutant: the string as it is
strip_not(s) == s

RECURSIVE strip(_)
\* str.strip
strip(s) ==
    IF s = <<>> THEN s
    ELSE IF Head(s) = " " THEN strip(Tail(s))
    ELSE IF s[Len(s)] = " " THEN strip(SubSeq(s, 1, Len(s) - 1))
    ELSE s

\* A text is the sequence of its characters.
NoText == <<>>
RawText == <<"r", "a", "w">>

Idle == [pc |-> "idle", text |-> NoText]
\* how the last call ended: how "returned" a value, "raised" an exception
\* (exc: its name) or "none" (not ended yet); path: the place it ended
\* at; before: the kind of the quota state file when the call began; arg:
\* the text the call was given; spent: the latest date on which a call of
\* the process was rejected for the daily cap (None without one), and
\* whether more than one call was rejected on it (history)
NoReturn ==
    [how |-> "none", value |-> NoText, exc |-> "none", path |-> "none",
     before |-> "none", arg |-> NoText,
     spent |-> [date |-> None, again |-> FALSE]]
Pending(b) == [NoReturn EXCEPT !.path = "call", !.before = b]
Returned(v, p, b) ==
    [NoReturn EXCEPT !.how = "returned", !.value = v, !.path = p, !.before = b]
Raised(e, p, b) ==
    [NoReturn EXCEPT !.how = "raised", !.exc = e, !.path = p, !.before = b]
\* the outcome r of the call given text
Of(text, r) == [r EXCEPT !.arg = text, !.spent = ret.spent]

\* mutant: no text counts as empty
IsEmptyText_never(text) == FALSE

\* "if not text"
IsEmptyText(text) == text = NoText

\* mutant: whatever the model answered is returned
KeepsMarkdown_always(markdown_content) == TRUE

\* "if not markdown_content" fails
KeepsMarkdown(markdown_content) == markdown_content # NoText

\* the history of admissions keeps those of the minute that ends with the
\* latest one, and of these the latest MAX_REQUESTS_PER_MINUTE + 1
Remember(h, e) ==
    LET InWindow(a) == a.t > e.t - OneMinute
        w == Append(SelectSeq(h, InWindow), e)
    IN IF Len(w) > MAX_REQUESTS_PER_MINUTE + 1 THEN Tail(w) ELSE w

\* date, n: the calls issued on the date of the latest call and not
\* released;  run: the calls issued by this run
IssueAt(i, t) ==
    IF i.date = DateOf(t) THEN [i EXCEPT !.n = @ + 1, !.run = @ + 1]
    ELSE [date |-> DateOf(t), n |-> 1, run |-> i.run + 1]

\* Entry of the gate up to client.models.generate_content: the empty-text
\* return, the admission, and the return of the raw text on rejection.
\* The call begins at time now.
GateBegin(text, cap, now) ==
    /\ gate.pc = "idle"
    /\ IF IsEmptyText(text)
       THEN /\ ret' = Of(text, Returned(NoText, "empty", file.kind))
            /\ clock' = now
            /\ UNCHANGED <<file, gate, admits, issued>>
       ELSE LET r == check_and_enforce_quota(file, disk # "failing", now, cap)
            IN /\ file' = r.file
               /\ clock' = r.clock
               /\ IF r.raised # "none"
                  THEN /\ ret' = Of(text, Raised(r.raised, "admit", file.kind))
                       /\ UNCHANGED <<gate, admits, issued>>
                  ELSE IF ~r.allowed
                  THEN /\ ret' = [Of(text, Returned(text, "rejected", file.kind))
                                    EXCEPT !.spent =
                                        [date |-> DateOf(now),
                                         again |-> ret.spent.date = DateOf(now)]]
                       /\ UNCHANGED <<gate, admits, issued>>
                  ELSE /\ ret' = Of(text, Pending(file.kind))
                       /\ gate' = [pc |-> "calling", text |-> text]
                       /\ admits' = Remember(admits, [t |-> r.stamp, newday |-> r.newday,
                                                   full |-> r.full, oldest |-> r.oldest])
                       /\ issued' = IssueAt(issued, r.clock)
    /\ UNCHANGED disk

\* The text-generation call ends: it answers a text, of which
\* response.text.strip() may leave nothing, or it raises (which runs
\* the compensation).
GateEnd(outcome) ==
    /\ gate.pc = "calling"
    /\ gate' = Idle
    /\ CASE ~outcome.raises /\ KeepsMarkdown(strip(outcome.text)) ->
              /\ ret' = Of(gate.text, Returned(strip(outcome.text), "converted", ret.before))
              /\ UNCHANGED <<file, issued>>
         [] ~outcome.raises /\ ~KeepsMarkdown(strip(outcome.text)) ->
              /\ ret' = Of(gate.text, Returned(gate.text, "fallback", ret.before))
              /\ UNCHANGED <<file, issued>>
         [] OTHER ->
              LET r == release_quota(file, disk # "failing")
              IN /\ file' = r.file
                 /\ IF r.raised # "none"
                    THEN /\ ret' = Of(gate.text, Raised(r.raised, "release", ret.before))
                         /\ UNCHANGED issued
                    ELSE /\ ret' = Of(gate.text, Returned(gate.text, "released", ret.before))
                         /\ issued' = [issued EXCEPT !.n = Max0(0, @ - 1)]
    /\ UNCHANGED <<clock, disk, admits>>

----------------------------------------------------------------------------
(* The crawl run: __main__, process_linkedin_query and                    *)
(* process_careers_future_query                                            *)

\* the identifiers a listing can hold, and the normalised company/title
\* pairs a board item can carry ("none": company or title missing)
Ids == 1..MaxId
\* the company/title pairs of the stored records, as the store keeps them
Pairs == {<< <<"a">>, <<"d">> >>}
NoJobs == [ids |-> {}, pairs |-> {}]

\* src: the source being crawled;  pc: "query" (about to process query q),
\* "detail" (in the detail loop at ids[k]), "done", "aborted" (exception exc
\* left __main__ from phase pc of the query);  found: the items of the
\* listing, in the order of discovery;  index: the dedup index read for the
\* query;  ids: new_job_ids_to_process;  cur, names: the job_id, and the
\* company and job_title, of the job_details being built;  described: the identifiers whose detail response came
\* with a description, in the order of the loop;  jobs: detailed_new_jobs
NoNames == [company |-> NoText, title |-> NoText]

FirstQuery(src) ==
    [src |-> src, pc |-> "query", q |-> 1, found |-> <<>>, index |-> NoJobs,
     ids |-> <<>>, k |-> 1, cur |-> None, names |-> NoNames,
     described |-> <<>>, jobs |-> <<>>,
     exc |-> "none", phase |-> "none"]

\* config.LINKEDIN_SEARCH_QUERIES and config.CAREERS_FUTURE_SEARCH_QUERIES
LINKEDIN_SEARCH_QUERIES == <<"data engineer", "data analyst">>
CAREERS_FUTURE_SEARCH_QUERIES == <<"data engineer">>

QueriesOf(src) ==
    IF src = "linkedin" THEN LINKEDIN_SEARCH_QUERIES ELSE CAREERS_FUTURE_SEARCH_QUERIES

\* __main__: the next query of the source, the next source, or the end
NextQuery(r) ==
    IF r.q < Len(QueriesOf(r.src)) THEN [FirstQuery(r.src) EXCEPT !.q = r.q + 1]
    ELSE IF r.src = "linkedin" THEN FirstQuery("careers_future")
    ELSE [FirstQuery(r.src) EXCEPT !.pc = "done", !.q = r.q]

\* an exception that nothing catches leaves __main__
Abort(r, e) == [r EXCEPT !.pc = "aborted", !.exc = e, !.phase = r.pc]

\* the sequences over S of length at most n
SeqsUpTo(S, n) == UNION {[1..m -> S] : m \in 0..n}

Range(q) == {q[i] : i \in 1..Len(q)}

IsInjective(q) == \A i, j \in 1..Len(q) : q[i] = q[j] => i = j

\* mutant: check 2 lets every pair through
PairKnown_never(job_item, known) == FALSE

\* mutant: check 1 lets every identifier through
IdKnown_never(id, known) == FALSE

\* check 1: the identifier is in the known-ID set
IdKnown(id, known) == id \in known.ids

\* mutant: every identifier of the listing stays
SelectIds_all(ids, known) == ids

RECURSIVE SelectIds(_, _)
\* process_linkedin_query: the identifiers not in the known-ID set
SelectIds(ids, known) ==
    IF ids = <<>> THEN <<>>
    ELSE IF IdKnown(ids[1], known) THEN SelectIds(Tail(ids), known)
    ELSE <<ids[1]>> \o SelectIds(Tail(ids), known)

\* _get_careers_future_job_company_name: the name of hiringCompany, else
\* the name of postedCompany, else None
CompanyName(job_item) ==
    IF job_item.hiringCompany # <<>> THEN job_item.hiringCompany
    ELSE job_item.postedCompany

\* check 2 of process_careers_future_query: company and title, stripped
\* and lower-cased, are both non-empty and the pair is known
PairKnown(job_item, known) ==
    LET normalized_company == lower(strip(CompanyName(job_item)))
        normalized_title == lower(strip(job_item.title))
    IN /\ normalized_company # <<>>
       /\ normalized_title # <<>>
       /\ <<normalized_company, normalized_title>> \in known.pairs

RECURSIVE SelectItems(_, _)
\* process_careers_future_query: the uuids of the items that pass check 1
\* and check 2, in the order of the listing
SelectItems(items, known) ==
    IF items = <<>> THEN <<>>
    ELSE IF IdKnown(items[1].uuid, known) THEN SelectItems(Tail(items), known)
    ELSE IF PairKnown(items[1], known) THEN SelectItems(Tail(items), known)
    ELSE <<items[1].uuid>> \o SelectItems(Tail(items), known)

\* a guest-source item: an identifier only
GuestItem(id) ==
    [uuid |-> id, hiringCompany |-> <<>>, postedCompany |-> <<>>, title |-> <<>>]

\* The detail loop starts on the new identifiers.  With none of them it is
\* empty (the early "return []" of process_linkedin_query gives the same
\* empty batch).
StartDetails(r, found, index, new) ==
    [r EXCEPT !.pc = "detail", !.found = found, !.index = index,
              !.ids = new, !.k = 1, !.described = <<>>, !.jobs = <<>>]

\* the store read answering with the records of the run's start
get_existing_jobs_from_supabase_once(known) == NoJobs

\* supabase_utils.get_existing_jobs_from_supabase(): the identifiers and the
\* company/title pairs of the records the store holds when it is called
get_existing_jobs_from_supabase(known) == known

\* process_linkedin_query up to the detail loop.  scraped: the identifiers
\* of the listing, each once; order: what list(set(...)) makes of them;
\* read: whether the store read returns or raises.
ListLinkedin(scraped, order, read) ==
    /\ run.pc = "query"
    /\ run.src = "linkedin"
    /\ run' = IF scraped = <<>> THEN NextQuery(run)
              ELSE IF read = "raises" THEN Abort(run, "StoreError")
              ELSE LET index == get_existing_jobs_from_supabase(store)
                   IN StartDetails(run, [i \in 1..Len(scraped) |-> GuestItem(scraped[i])],
                                   index, SelectIds(order, index))
    /\ UNCHANGED <<clock, file, disk, gate, ret, admits, issued, store, trip, http, listing, search, procs>>

\* process_careers_future_query up to the detail loop.  A store read that
\* raises is caught and gives an empty index.
ListCareersFuture(items, read) ==
    /\ run.pc = "query"
    /\ run.src = "careers_future"
    /\ run' = IF items = <<>> THEN NextQuery(run)
              ELSE LET index == IF read = "raises" THEN NoJobs
                                ELSE get_existing_jobs_from_supabase(store)
                   IN StartDetails(run, items, index, SelectItems(items, index))
    /\ UNCHANGED <<clock, file, disk, gate, ret, admits, issued, store, trip, http, listing, search, procs>>

\* the detail loop passes to the next identifier
Skip(r) == [r EXCEPT !.k = @ + 1, !.cur = None, !.names = NoNames]

\* mutant: the detail loop keeps whatever it gets
Collect_all(r, description) ==
    [Skip(r) EXCEPT !.jobs = Append(@, [job_id |-> r.cur,
                                       company |-> r.names.company,
                                       title |-> r.names.title,
                                       description |-> description,
                                       provider |-> r.src])]

\* mutant: the detail loop keeps nothing
Collect_none(r, description) == Skip(r)

\* the detail loop keeps job_details when its description is not empty and
\* its job_id is not None
Collect(r, description) ==
    IF description # NoText /\ strip(description) # NoText /\ r.cur # None
    THEN [Skip(r) EXCEPT !.jobs = Append(@, [job_id |-> r.cur,
                                            company |-> r.names.company,
                                            title |-> r.names.title,
                                            description |-> description,
                                            provider |-> r.src])]
    ELSE Skip(r)

\* What the gate's result makes of the item.  _fetch_linkedin_job_details
\* catches every exception and gives None; _fetch_careers_future_job_details
\* catches request and JSON errors only, so an exception of the gate leaves
\* it, process_careers_future_query and __main__.
AfterGate(r, result) ==
    IF result.how = "none" THEN r
    ELSE IF result.how = "raised"
    THEN IF r.src = "linkedin" THEN Skip(r) ELSE Abort(r, result.exc)
    ELSE Collect(r, result.value)

\* the detail responses that make the fetch return None through handled
\* paths; "nodesc" gives job_details without description
Handled == {"http_error", "unparsable"}
\* board responses that are valid JSON of another shape: not an object
\* (AttributeError), or with an empty positionLevels list and no
\* description (IndexError)
Misshapen == {"notdict", "nolevels"}

ErrorOf(response) == IF response = "notdict" THEN "AttributeError" ELSE "IndexError"

\* One detail fetch up to the text-generation call: after d seconds the
\* response arrives; "desc" carries a description, which goes to the gate,
\* and (board source) the uuid, the company name and the title of the
\* response.  The other fields of a record play no part.
DetailFetch(d, response, uuid, names) ==
    /\ run.pc = "detail"
    /\ run.k <= Len(run.ids)
    /\ gate.pc = "idle"
    /\ response \in Misshapen => run.src = "careers_future"
    /\ uuid # run.ids[run.k] =>
          uuid = None /\ run.src = "careers_future" /\ response = "desc"
    /\ names # NoNames => run.src = "careers_future" /\ response = "desc"
    /\ IF response = "desc"
       THEN /\ GateBegin(RawText, MAX_REQUESTS_PER_DAY, clock + d)
            /\ run' = AfterGate([run EXCEPT !.cur = uuid, !.names = names,
                                             !.described = Append(@, run.ids[run.k])],
                                ret')
       ELSE /\ clock' = clock + d
            /\ run' = IF response \in Handled THEN Skip(run)
                      ELSE IF response = "nodesc"
                      THEN Collect([run EXCEPT !.cur = uuid], NoText)
                      ELSE Abort(run, ErrorOf(response))
            /\ UNCHANGED <<file, disk, gate, ret, admits, issued>>
    /\ UNCHANGED <<store, trip, http, listing, search, procs>>

\* the text-generation call of the detail fetch ends
DetailAnswer(outcome) ==
    /\ run.pc = "detail"
    /\ GateEnd(outcome)
    /\ run' = AfterGate(run, ret')
    /\ UNCHANGED <<store, trip, http, listing, search, procs>>

\* save_jobs_to_supabase: the records join the store
Saved(known, jobs) ==
    [known EXCEPT !.ids = @ \union {j.job_id : j \in Range(jobs)}]

\* __main__ after process_*_query returned: a non-empty batch is saved, and
\* the loop goes on
EndQuery ==
    /\ run.pc = "detail"
    /\ run.k > Len(run.ids)
    /\ gate.pc = "idle"
    /\ store' = IF run.jobs # <<>> THEN Saved(store, run.jobs) ELSE store
    /\ run' = NextQuery(run)
    /\ UNCHANGED <<clock, file, disk, gate, ret, admits, issued, trip, http, listing, search, procs>>

----------------------------------------------------------------------------
(* The environment *)

Deltas == {10, 60}
SlowDeltas == {30}
Texts == {NoText, RawText}
\* what client.models.generate_content does: it answers a text with spaces
\* around it, or spaces only, or raises
Outcomes ==
    {[raises |-> FALSE, text |-> <<" ", "m", "d", " ">>],
     [raises |-> FALSE, text |-> <<" ">>],
     [raises |-> TRUE, text |-> NoText]}

\* time passes
Tick(d) ==
    /\ clock + d <= Midnight + Horizon
    /\ clock' = clock + d
    /\ UNCHANGED <<file, disk, gate, ret, admits, issued, run, store, trip, http, listing, search, procs>>

\* some caller enriches a text
Enrich ==
    /\ issued.run < MaxCalls
    /\ \E text \in Texts : GateBegin(text, MAX_REQUESTS_PER_DAY, clock)
    /\ UNCHANGED <<run, store, trip, http, listing, search, procs>>

\* the text-generation call of that caller ends
Answer ==
    /\ \E outcome \in Outcomes : GateEnd(outcome)
    /\ UNCHANGED <<run, store, trip, http, listing, search, procs>>

Pass == \E d \in Deltas : Tick(d)

PassSlow == \E d \in SlowDeltas : Tick(d)

\* a file left by an earlier run of the same day: Headroom admissions short
\* of the daily cap, the latest of them Lead seconds before the start
PriorFile ==
    [kind |-> "ok", daily_request_count |-> MAX_REQUESTS_PER_DAY - Headroom,
     daily_reset_date |-> date_isoformat(DateOf(Midnight - Lead)),
     request_timestamps |-> <<isoformat(Whole(Midnight - 2 * Lead))>>]

\* the start of a process, with the quota state file one of files and the
\* store one of stores
Start(files, stores) ==
    /\ clock = Midnight - Lead
    /\ file \in files
    /\ disk = "ok"
    /\ gate = Idle
    /\ ret = NoReturn
    /\ admits = <<>>
    /\ issued = [date |-> DateOf(Midnight - Lead),
                 n |-> file.daily_request_count, run |-> 0]
    /\ run = FirstQuery("linkedin")
    /\ store \in stores
    /\ trip = NoTrip
    /\ http = NoRequest
    /\ listing = NoListing
    /\ search = NoSearch
    /\ procs = NoProcs

Init == Start({NoFile, CorruptFile, PriorFile}, {NoJobs})

Next == Enrich \/ Answer \/ Pass

\* one process, every save succeeds
Spec == Init /\ [][Next]_vars

\* the quota state file becomes unwritable, and later writable again
DiskFault ==
    /\ \/ disk = "ok" /\ disk' = "failing"
       \/ disk = "failing" /\ disk' = "repaired"
    /\ UNCHANGED <<clock, file, gate, ret, admits, issued, run, store, trip, http, listing, search, procs>>

NextDisk == Enrich \/ Answer \/ PassSlow \/ DiskFault

\* one process, saves may fail
InitDisk == Start({NoFile, PriorFile}, {NoJobs})

SpecDisk == InitDisk /\ [][NextDisk]_vars

\* the process is stopped, at any point, and a new run begins: the call in
\* flight is lost with it, the quota state file stays as it is
HardStop ==
    /\ gate' = Idle
    /\ ret' = NoReturn
    /\ UNCHANGED <<clock, file, disk, admits, issued, run, store, trip, http, listing, search, procs>>

NextCrash == Enrich \/ Answer \/ Pass \/ HardStop

\* runs of one process after the other, every save succeeds
SpecCrash == Init /\ [][NextCrash]_vars

\* one process that finds the quota state file damaged
InitBadFile == Start({NoFile, CorruptFile, NoFieldsFile}, {NoJobs})

SpecBadFile == InitBadFile /\ [][Next]_vars

----------------------------------------------------------------------------
(* The environment of a crawl run *)

\* the seconds a detail fetch takes (the guest source waits 3 to 10 s)
FetchSeconds == {5}
Responses == Handled \union Misshapen \union {"desc", "nodesc"}
Reads == {"ok", "raises"}
\* the items a board listing may hold
AllBoardItems ==
    [uuid : Ids, hiringCompany : {<<>>, <<" ", "A">>},
     postedCompany : {<<>>, <<"a">>}, title : {<<>>, <<"D", " ">>}]

\* the items of the listings of a crawl: with a hiring company and a title,
\* or with neither
BoardItems ==
    {it \in AllBoardItems :
        /\ it.postedCompany = <<>>
        /\ (it.hiringCompany = <<>>) = (it.title = <<>>)}

\* the company name and title of a detail response: none, or those of a
\* stored record written with spaces and capitals
DetailNames == {NoNames, [company |-> <<" ", "A">>, title |-> <<"D", " ">>]}

\* the listing phase of a query, and the filter against the store
Listing ==
    /\ run.pc = "query"
    /\ \/ /\ run.src = "linkedin"
          /\ \E scraped \in SeqsUpTo(Ids, MaxListing), read \in Reads :
                /\ IsInjective(scraped)
                /\ \E order \in SeqsUpTo(Ids, Len(scraped)) :
                      /\ IsInjective(order)
                      /\ Range(order) = Range(scraped)
                      /\ ListLinkedin(scraped, order, read)
       \/ /\ run.src = "careers_future"
          /\ \E items \in SeqsUpTo(BoardItems, MaxListing), read \in Reads :
                ListCareersFuture(items, read)

\* one step of the detail loop
Detail ==
    \/ \E d \in FetchSeconds, response \in Responses, uuid \in Ids \union {None},
          names \in DetailNames :
          DetailFetch(d, response, uuid, names)
    \/ \E outcome \in Outcomes : DetailAnswer(outcome)

NextRun == Listing \/ Detail \/ EndQuery

\* a crawl run, started with some records in the store
InitRun ==
    Start({PriorFile}, [ids : SUBSET Ids, pairs : SUBSET Pairs])

SpecRun == InitRun /\ [][NextRun]_vars

\* the file of a day whose quota is used up
SpentFile == [PriorFile EXCEPT !.daily_request_count = MAX_REQUESTS_PER_DAY]

\* one detail fetch; with the quota used up it never waits for the model
Fetch ==
    \E d \in FetchSeconds, response \in Responses, uuid \in Ids \union {None},
       names \in DetailNames :
        DetailFetch(d, response, uuid, names)

NextRerun == Listing \/ Fetch \/ EndQuery

\* A crawl run on an empty store: what the store holds later, the queries
\* of the run wrote.  The quota of the day is used up, so descriptions stay
\* raw.
InitRerun == Start({SpentFile}, {NoJobs})

SpecRerun == InitRerun /\ [][NextRerun]_vars

\* the same run from the last query of the guest source on, one query of
\* each source, the queries before them having written one record
WrittenBefore == [ids |-> {MaxId}, pairs |-> {}]

InitLastQueries ==
    /\ clock = Midnight - Lead
    /\ file = SpentFile
    /\ disk = "ok"
    /\ gate = Idle
    /\ ret = NoReturn
    /\ admits = <<>>
    /\ issued = [date |-> DateOf(Midnight - Lead),
                 n |-> file.daily_request_count, run |-> 0]
    /\ run = [FirstQuery("linkedin") EXCEPT !.q = Len(LINKEDIN_SEARCH_QUERIES)]
    /\ store = WrittenBefore
    /\ trip = NoTrip
    /\ http = NoRequest
    /\ listing = NoListing
    /\ search = NoSearch
    /\ procs = NoProcs

SpecLastQueries == InitLastQueries /\ [][NextRerun]_vars

\* one query of either source, up to the return of process_*_query, against
\* some records in the store
InitQuery ==
    /\ clock = Midnight - Lead
    /\ file = PriorFile
    /\ disk = "ok"
    /\ gate = Idle
    /\ ret = NoReturn
    /\ admits = <<>>
    /\ issued = [date |-> DateOf(Midnight - Lead),
                 n |-> file.daily_request_count, run |-> 0]
    /\ \E src \in {"linkedin", "careers_future"} :
          run = [FirstQuery(src) EXCEPT !.q = Len(QueriesOf(src))]
    /\ store \in [ids : SUBSET Ids, pairs : SUBSET Pairs]
    /\ trip = NoTrip
    /\ http = NoRequest
    /\ listing = NoListing
    /\ search = NoSearch
    /\ procs = NoProcs

NextOneQuery == Listing \/ Detail

SpecQuery == InitQuery /\ [][NextOneQuery]_vars

\* the file of a day with one call left
OneLeftFile == [PriorFile EXCEPT !.daily_request_count = MAX_REQUESTS_PER_DAY - 1]

\* one query of either source on a day with one call left, against some
\* records in the store
InitBatch ==
    /\ clock = Midnight - Lead
    /\ file = OneLeftFile
    /\ disk = "ok"
    /\ gate = Idle
    /\ ret = NoReturn
    /\ admits = <<>>
    /\ issued = [date |-> DateOf(Midnight - Lead),
                 n |-> file.daily_request_count, run |-> 0]
    /\ \E src \in {"linkedin", "careers_future"} :
          run = [FirstQuery(src) EXCEPT !.q = Len(QueriesOf(src))]
    /\ store \in [ids : SUBSET Ids, pairs : SUBSET Pairs]
    /\ trip = NoTrip
    /\ http = NoRequest
    /\ listing = NoListing
    /\ search = NoSearch
    /\ procs = NoProcs

NextBatch == Listing \/ Detail

SpecBatch == InitBatch /\ [][NextBatch]_vars

\* the listing phase and the filter alone, on every board item
Filtering ==
    /\ run.pc = "query"
    /\ \/ /\ run.src = "linkedin"
          /\ \E scraped \in SeqsUpTo(Ids, MaxListing), read \in Reads :
                /\ IsInjective(scraped)
                /\ \E order \in SeqsUpTo(Ids, Len(scraped)) :
                      /\ IsInjective(order)
                      /\ Range(order) = Range(scraped)
                      /\ ListLinkedin(scraped, order, read)
       \/ /\ run.src = "careers_future"
          /\ \E items \in SeqsUpTo(AllBoardItems, MaxListing), read \in Reads :
                ListCareersFuture(items, read)

SpecFilter == InitQuery /\ [][Filtering]_vars

----------------------------------------------------------------------------
(* Quota states saved and loaded *)

Counts == {0, 1, MAX_REQUESTS_PER_DAY}
Dates == {None, DateOf(Midnight) - 1, DateOf(Midnight)}
Datetimes == [sec : {Midnight - 1, Midnight, Midnight + OneMinute + 1},
              micro : {0, 250000}]

NextTrip ==
    \/ \E daily_count \in Counts, reset_date \in Dates,
          timestamps \in SeqsUpTo(Datetimes, MaxStamps) :
          SaveState(daily_count, reset_date, timestamps)
    \/ LoadState

SpecTrip == Init /\ [][NextTrip]_vars

----------------------------------------------------------------------------
(* Guest-source requests *)

\* random.uniform(5.0, 15.0) before a listing page, random.uniform(3.0, 10.0)
\* before a detail, random.uniform(0, 5) added to the retry delay
SleepTimes == [listing |-> {5, 15}, detail |-> {3, 10}]
Jitters == {0, 5}

NextHttp ==
    \/ /\ clock <= Midnight + Horizon
       /\ \E kind \in {"listing", "detail"} :
             \E sleep_time \in SleepTimes[kind] : BeginRequest(kind, sleep_time)
    \/ \E answer \in Answers, jitter \in Jitters : Attempt(answer, jitter)

SpecHttp == Init /\ [][NextHttp]_vars

\* the pages the guest source may answer with
Urns == 1..MaxUrn
Pages == {NoPageText} \union
         {[text |-> TRUE, li |-> li] : li \in SeqsUpTo(Urns \union {None}, MaxPage)}

InitListing ==
    /\ clock = Midnight - Lead
    /\ file = NoFile
    /\ disk = "ok"
    /\ gate = Idle
    /\ ret = NoReturn
    /\ admits = <<>>
    /\ issued = [date |-> DateOf(Midnight - Lead), n |-> 0, run |-> 0]
    /\ run = FirstQuery("linkedin")
    /\ store = NoJobs
    /\ trip = NoTrip
    /\ http = NoRequest
    /\ listing = CalledListing
    /\ search = NoSearch
    /\ procs = NoProcs

\* the pages read do not depend on the clock: one value of each random
\* sleep of the listing
PageSeconds == {5}
PageJitters == {0}

NextListing ==
    \/ \E sleep_time \in PageSeconds : PageRequest(sleep_time)
    \/ \E answer \in Answers, jitter \in PageJitters : Attempt(answer, jitter)
    \/ \E page \in Pages : ReadPage(page)

\* one call of _fetch_linkedin_job_ids
SpecListing == InitListing /\ [][NextListing]_vars

\* the pages with one list item at most: a page bears on the length of the
\* listing only by being empty, by bringing an identifier, or by bringing
\* none
BriefPages == {page \in Pages : Len(page.li) <= 1}

NextListingRuns ==
    \/ \E sleep_time \in PageSeconds : PageRequest(sleep_time)
    \/ \E answer \in Answers, jitter \in PageJitters : Attempt(answer, jitter)
    \/ \E page \in BriefPages : ReadPage(page)

\* the same call running on: every sleep ends, and every request is
\* answered or times out (timeout=config.REQUEST_TIMEOUT)
SpecListingRuns ==
    InitListing /\ [][NextListingRuns]_vars /\ WF_vars(NextListingRuns)

\* the responses the board source may answer a search with
Totals == {0, 5}
Links == 1..MaxLink
SearchResponses ==
    {SearchResult(results, total, next) :
        results \in SeqsUpTo(Ids, MaxResults), total \in Totals,
        next \in Links \union {None}}
    \union {Unread(kind) : kind \in SearchErrors \union {"null_links"}}

InitSearch ==
    /\ clock = Midnight - Lead
    /\ file = NoFile
    /\ disk = "ok"
    /\ gate = Idle
    /\ ret = NoReturn
    /\ admits = <<>>
    /\ issued = [date |-> DateOf(Midnight - Lead), n |-> 0, run |-> 0]
    /\ run = FirstQuery("careers_future")
    /\ store = NoJobs
    /\ trip = NoTrip
    /\ http = NoRequest
    /\ listing = NoListing
    /\ search = CalledSearch
    /\ procs = NoProcs

NextSearch ==
    \/ \E answer \in SearchErrors \union {"ok"} : SuggestSkills(answer)
    \/ \E response \in SearchResponses : SearchPost(response)

\* one call of _fetch_careers_future_jobs
SpecSearch == InitSearch /\ [][NextSearch]_vars

\* two processes, each calling check_and_enforce_quota again and again
NextShared ==
    \/ \E p \in Procs : LoadBy(p)
    \/ \E p \in Procs : DecideBy(p)
    \/ Pass

\* one call is left of the daily cap
InitShared == Start({OneLeftFile}, {NoJobs})

SpecShared == InitShared /\ [][NextShared]_vars

----------------------------------------------------------------------------
(* Claims *)

\* C1: the persisted daily count is never above the daily cap and never
\* negative, whatever admissions, compensations, date changes and failed
\* saves a single process goes through.
DailyCountWithinCap ==
    /\ file.daily_request_count <= MAX_REQUESTS_PER_DAY
    /\ file.daily_request_count >= 0

\* the cap is reached and an admission was rejected for it
CapReachedAndRejected ==
    /\ file.kind = "ok"
    /\ file.daily_request_count = MAX_REQUESTS_PER_DAY
    /\ ret.path = "rejected"

Gap(i) == admits[i].t - admits[i - 1].t

\* C2 as stated: the timestamps of two consecutively admitted calls differ
\* by at least SECONDS_BETWEEN_REQUESTS, also across a change of date.
MinimumSpacingAlways ==
    \A i \in 2..Len(admits) : Gap(i) >= SECONDS_BETWEEN_REQUESTS

\* C2 amended: the timestamps of two consecutively admitted calls differ by
\* at least SECONDS_BETWEEN_REQUESTS unless the later admission made the
\* new-day reset, which clears the timestamps.
MinimumSpacingWithinDay ==
    \A i \in 2..Len(admits) :
        admits[i].newday \/ Gap(i) >= SECONDS_BETWEEN_REQUESTS

\* an admission that had to sleep for the spacing: it is recorded exactly
\* SECONDS_BETWEEN_REQUESTS after the one before it
SpacingSleptFor ==
    \E i \in 2..Len(admits) :
        ~admits[i].newday /\ Gap(i) = SECONDS_BETWEEN_REQUESTS

\* C3 as stated: no trailing minute holds more than MAX_REQUESTS_PER_MINUTE
\* recorded admissions (admits holds those of the minute ending with the
\* latest), and an admission that found the pruned list full is recorded
\* when the oldest entry of that list is a minute old.
PerMinuteCapAlways ==
    /\ Len(admits) <= MAX_REQUESTS_PER_MINUTE
    /\ \A i \in 1..Len(admits) :
          admits[i].full => admits[i].t >= admits[i].oldest + OneMinute

\* the admissions of the trailing minute made since the latest new-day reset
SinceReset(h) ==
    LET resets == {i \in 1..Len(h) : h[i].newday}
        from == IF resets = {} THEN 1
                ELSE CHOOSE i \in resets : \A j \in resets : j <= i
    IN SubSeq(h, from, Len(h))

\* C3 amended: no trailing minute holds more than MAX_REQUESTS_PER_MINUTE
\* admissions recorded since the latest new-day reset, and an admission
\* that found the pruned list full is recorded when the oldest entry of that
\* list is a minute old.
PerMinuteCapWithinDay ==
    /\ Len(SinceReset(admits)) <= MAX_REQUESTS_PER_MINUTE
    /\ \A i \in 1..Len(admits) :
          admits[i].full => admits[i].t >= admits[i].oldest + OneMinute

\* an admission found the pruned list full and waited for its oldest entry
RpmSleptFor ==
    \E i \in 1..Len(admits) :
        /\ admits[i].full
        /\ admits[i].t = admits[i].oldest + OneMinute + RpmSafetyMargin

\* the text-generation call failed and the compensation is run
ReleaseStep ==
    /\ gate.pc = "calling"
    /\ gate'.pc = "idle"
    /\ ret'.path \in {"release", "released"}

\* C4: the compensation after a failed call completes and leaves the file
\* with the daily count one lower (floored at zero), the reset date and the
\* timestamps as they were.
ReleaseRestoresCount ==
    [][ReleaseStep =>
        /\ ret'.how = "returned"
        /\ file' = [file EXCEPT !.daily_request_count = Max0(0, @ - 1)]]_vars

CountAfterRelease(f) ==
    release_quota(f, disk # "failing").file.daily_request_count

GateNeverFails ==
    /\ ret.how # "raised"
    /\ ret.path \in {"release", "released"} =>
          ret.how = "returned" /\ ret.value = RawText

\* C7: no failure of one detail fetch, malformed response or
\* text-generation call makes an exception leave the run: the detail loop
\* of a query is never the place where the run ends.
ItemFailureNeverAborts == ~(run.pc = "aborted" /\ run.phase = "detail")

BadKinds == {"absent", "corrupt", "nofields"}

\* C8: an admission that finds the file absent, unreadable or without the
\* expected fields raises nothing and is allowed from the fresh state: the
\* file then holds count 1, the date of the admission and one timestamp.
BadFileTreatedAsFresh ==
    (ret.before \in BadKinds /\ ret.path \in {"admit", "rejected", "call"}) =>
        /\ ret.path = "call"
        /\ file.kind = "ok"
        /\ file.daily_request_count = 1
        /\ Len(file.request_timestamps) = 1
        /\ file.daily_reset_date = date_isoformat(file.request_timestamps[1].date)

\* the calls issued on the current date and not released
IssuedToday == IF issued.date = DateOf(clock) THEN issued.n ELSE 0

\* the daily count a reload of the file gives for the current date
CountToday ==
    IF file.kind = "ok" /\ file.daily_reset_date = date_isoformat(DateOf(clock))
    THEN file.daily_request_count ELSE 0

\* C9: while no save succeeds, the admissions of one process still keep
\* the daily cap and the minimum spacing.
LedgerHoldsWithoutSaves ==
    /\ IssuedToday <= MAX_REQUESTS_PER_DAY
    /\ \A i \in 2..Len(admits) :
          admits[i].newday \/ admits[i].t - admits[i - 1].t >= SECONDS_BETWEEN_REQUESTS

\* C10: when a text-generation call is issued its admission is in the file;
\* at any point the file accounts for every call issued on the current date
\* and not released; no more than the daily cap of calls is issued on a
\* date.
PersistedBeforeCall ==
    /\ gate.pc = "calling" =>
          /\ file.kind = "ok"
          /\ file.daily_request_count >= 1
          /\ file.request_timestamps # <<>>
          /\ file.request_timestamps[Len(file.request_timestamps)]
                = isoformat(Whole(admits[Len(admits)].t))
    /\ CountToday >= IssuedToday
    /\ IssuedToday <= MAX_REQUESTS_PER_DAY

\* the reset date a loaded state denotes: its string as the callers parse it
LoadedDate(state) ==
    IF state.daily_reset_date = Null THEN None ELSE ParseDate(state.daily_reset_date)

\* C11: a state saved and then loaded has the count, the reset date (absent
\* included) and the timestamps, in their order, that were saved.
SaveThenLoadSame ==
    trip.pc = "loaded" =>
        /\ trip.loaded.daily_request_count = trip.daily_count
        /\ LoadedDate(trip.loaded) = trip.reset_date
        /\ trip.loaded.request_timestamps = trip.timestamps

\* a state with a date and two timestamps, the later one first and one of
\* them with microseconds, went through the file
UnorderedStampsLoaded ==
    /\ trip.pc = "loaded"
    /\ trip.reset_date # None
    /\ Len(trip.timestamps) = 2
    /\ trip.timestamps[1].sec > trip.timestamps[2].sec
    /\ trip.timestamps[1].micro # 0

\* every answer of the request was 429
Only429 == \A i \in 1..Len(http.answers) : http.answers[i] = "429"

\* C12: a request answered 429 every time ends as a failure after exactly
\* MAX_RETRIES retries, MAX_RETRIES + 1 attempts; a first answer that is
\* another HTTP error, a timeout or a transport failure ends it as a
\* failure with no retry.
RetriesExactlyMax ==
    http.pc = "done" =>
        /\ Only429 =>
              /\ http.res = "failed"
              /\ http.retries = MAX_RETRIES
              /\ http.attempts = MAX_RETRIES + 1
        /\ http.answers[1] \in {"404"} \union RequestErrors =>
              /\ http.res = "failed"
              /\ http.retries = 0
              /\ http.attempts = 1

\* a detail request was answered 429 every time, to the last retry
Only429ToTheEnd ==
    /\ http.pc = "done"
    /\ http.kind = "detail"
    /\ Only429
    /\ http.attempts > 1

\* the identifiers the listing phase discovered
FoundIds == {run.found[i].uuid : i \in 1..Len(run.found)}

\* the listed items whose identifier is not in the dedup index of the query
Unknown == {i \in 1..Len(run.found) : run.found[i].uuid \notin run.index.ids}

\* C13 as stated: the identifiers passed on to detail fetching are exactly
\* the crawled identifiers that are not in the known-ID set.
TierOneAlone ==
    run.pc = "detail" => Range(run.ids) = FoundIds \ run.index.ids

\* C13: the identifiers passed on to detail fetching are exactly the
\* crawled identifiers that are not in the known-ID set, less (board
\* source) those of the items whose normalized company/title pair is in the
\* known pair set: no known identifier is kept, and an unknown one is
\* dropped only by the pair check.
TierOneThenPairs ==
    run.pc = "detail" =>
        /\ Range(run.ids) \subseteq FoundIds \ run.index.ids
        /\ \A i \in Unknown :
              \/ run.found[i].uuid \in Range(run.ids)
              \/ /\ run.src = "careers_future"
                 /\ <<lower(strip(CompanyName(run.found[i]))),
                      lower(strip(run.found[i].title))>> \in run.index.pairs

\* a listing with a known identifier, which is dropped, and an unknown one,
\* which is passed on
KnownDroppedUnknownKept ==
    /\ run.pc = "detail"
    /\ run.ids # <<>>
    /\ FoundIds \cap run.index.ids # {}

\* a string without its spaces, in lower case
Folded(s) ==
    LET t == SelectSeq(s, LAMBDA c : c # " ")
    IN [i \in 1..Len(t) |-> IF t[i] \in {"A", "a"} THEN "a" ELSE "d"]

\* the company (hiring company first) and title of a listed item, folded
FoldedPair(job_item) ==
    <<Folded(IF job_item.hiringCompany # <<>> THEN job_item.hiringCompany
             ELSE job_item.postedCompany),
      Folded(job_item.title)>>

\* the listed items with an unknown identifier whose pair is known
UnknownWithKnownPair == {i \in Unknown : FoldedPair(run.found[i]) \in run.index.pairs}

\* C14: on the board source a listed item whose identifier is unknown and
\* whose stripped, lower-cased company/title pair is in the known pair set
\* is excluded from the identifiers to process, and one whose identifier
\* is unknown and whose normalized pair is not in the known pair set is
\* retained: the identifiers to process are one for each such item.
PairDedup ==
    run.pc = "detail" /\ run.src = "careers_future" =>
        /\ Len(run.ids) = Cardinality(Unknown \ UnknownWithKnownPair)
        /\ \A i \in Unknown \ UnknownWithKnownPair :
              run.found[i].uuid \in Range(run.ids)

\* a board listing with an unknown identifier under a known pair, written
\* with spaces and capitals, and with another unknown identifier
RepostDroppedOtherKept ==
    /\ run.pc = "detail"
    /\ run.src = "careers_future"
    /\ \E i \in UnknownWithKnownPair :
          /\ <<CompanyName(run.found[i]), run.found[i].title>> \notin run.index.pairs
          /\ run.found[i].uuid \notin Range(run.ids)
    /\ run.ids # <<>>

\* the identifiers of the records of a batch, in its order
JobIds(jobs) == [i \in 1..Len(jobs) |-> jobs[i].job_id]

\* C15: the batch that a query hands to the store write has exactly one
\* record for each discovered identifier that is not in the known-ID set
\* and whose detail fetch came with a non-empty description, and nothing
\* else; a failed detail fetch removes only its own identifier, so the
\* records built before it are still handed over.
BatchIsNewAndDescribed ==
    /\ run.pc = "detail" /\ run.k > Len(run.ids) =>
          /\ Range(JobIds(run.jobs)) = Range(run.described)
          /\ IsInjective(JobIds(run.jobs))
          /\ Range(JobIds(run.jobs)) \subseteq FoundIds \ run.index.ids
    /\ run.pc = "aborted" /\ run.phase = "detail" => run.jobs = <<>>

RECURSIVE IsSubsequence(_, _)
\* a is b with some of its elements left out
IsSubsequence(a, b) ==
    IF a = <<>> THEN TRUE
    ELSE IF b = <<>> THEN FALSE
    ELSE IF a[1] = b[1] THEN IsSubsequence(Tail(a), Tail(b))
    ELSE IsSubsequence(a, Tail(b))

\* the identifiers of the listing, in the order of discovery
FoundOrder == [i \in 1..Len(run.found) |-> run.found[i].uuid]

\* C16: for each source and query the identifiers given to detail fetch,
\* and the identifiers of the records of the batch, come in the order in
\* which the listing phase discovered them.
DiscoveryOrderKept ==
    run.pc = "detail" =>
        /\ IsSubsequence(run.ids, FoundOrder)
        /\ IsSubsequence(JobIds(run.jobs), FoundOrder)

EmptyInputUntouched ==
    [][GateBegin(NoText, MAX_REQUESTS_PER_DAY, clock) =>
          /\ ret'.how = "returned"
          /\ ret'.value = NoText
          /\ gate'.pc = "idle"
          /\ file' = file
          /\ clock' = clock
          /\ admits' = admits
          /\ issued' = issued]_vars

\* the gate returned the empty text it was given, in a run that has issued
\* calls before
EmptyGivenAndReturned ==
    /\ ret.how = "returned"
    /\ ret.arg = NoText
    /\ ret.value = NoText
    /\ issued.run > 0

\* a step of the detail loop in which the detail came with a description
\* and the admission rejected
RejectedInDetail ==
    /\ run.pc = "detail"
    /\ run'.pc = "detail"
    /\ run'.k = run.k + 1
    /\ Len(run'.described) = Len(run.described) + 1
    /\ ret'.path = "rejected"

\* C19: when the admission rejects, the gate returns the raw text it was
\* given, which is not empty, and issues no text-generation call; the
\* record being built gets that raw text as its description (and is kept,
\* when the response named its identifier).
RejectedKeepsRawText ==
    [][RejectedInDetail =>
          /\ ret'.how = "returned"
          /\ ret'.arg # NoText
          /\ ret'.value = ret'.arg
          /\ gate'.pc = "idle"
          /\ issued' = issued
          /\ file' = file
          /\ \/ /\ Len(run'.jobs) = Len(run.jobs) + 1
                /\ SubSeq(run'.jobs, 1, Len(run.jobs)) = run.jobs
                /\ run'.jobs[Len(run'.jobs)].job_id = run.ids[run.k]
                /\ run'.jobs[Len(run'.jobs)].description = ret'.arg
                /\ run'.jobs[Len(run'.jobs)].provider = run.src
             \/ run.src = "careers_future" /\ run'.jobs = run.jobs]_vars

\* the admission rejected and the record of the item is in the batch with
\* the raw text
RawRecordCollected ==
    /\ run.pc = "detail"
    /\ ret.path = "rejected"
    /\ run.jobs # <<>>
    /\ run.jobs[Len(run.jobs)].description = RawText
    /\ run.jobs[Len(run.jobs)].job_id = run.ids[run.k - 1]

\* a text without the spaces around it (the texts of the model have none
\* inside)
Trimmed(text) == SelectSeq(text, LAMBDA c : c # " ")

\* C20: when the text-generation call succeeds after the admission, the
\* gate returns the transformed text, trimmed, if that is not empty, and
\* the raw text it was given otherwise; in both cases nothing is released:
\* the quota state file and the count of issued calls stay as the
\* admission left them.
SuccessKeepsSlot ==
    [][\A o \in Outcomes :
          ~o.raises /\ GateEnd(o) =>
              /\ ret'.how = "returned"
              /\ ret'.value = IF Trimmed(o.text) # NoText THEN Trimmed(o.text)
                              ELSE gate.text
              /\ gate.text # NoText
              /\ file' = file
              /\ issued' = issued]_vars

\* the model answered spaces only and the gate returned the raw text, the
\* admitted call still counted
FellBackToRawText ==
    /\ ret.how = "returned"
    /\ ret.path = "fallback"
    /\ ret.value = RawText
    /\ issued.n > 0
    /\ file.kind = "ok"
    /\ file.daily_request_count = issued.n

\* the quota state file holds no reset date, or one before the day of t
StoredDateBefore(t) ==
    \/ file.kind \in {"absent", "corrupt"}
    \/ /\ file.kind = "ok"
       /\ \/ file.daily_reset_date = Null
          \/ file.daily_reset_date.date < t \div SecondsPerDay

\* a step in which the admission runs for a caller of the gate
AdmissionStep ==
    \E text \in Texts \ {NoText} : GateBegin(text, MAX_REQUESTS_PER_DAY, clock)

\* C21: when the stored reset date is absent or earlier than today, the
\* admission allows the call whatever the stored count was, without
\* sleeping, and the file afterwards holds count 1, the date of today and
\* the one timestamp of this call.
NewDayAdmitsAfresh ==
    [][StoredDateBefore(clock) /\ AdmissionStep =>
          /\ gate'.pc = "calling"
          /\ clock' = clock
          /\ file' = [kind |-> "ok", daily_request_count |-> 1,
                      daily_reset_date |->
                          [date |-> clock \div SecondsPerDay, time |-> None,
                           frac |-> None],
                      request_timestamps |->
                          <<[date |-> clock \div SecondsPerDay,
                             time |-> clock % SecondsPerDay, frac |-> None]>>]]_vars

\* a call admitted on a new day, in a run that issued more than Headroom
\* calls the day before: the count of that day is replaced by 1
AdmittedOnNewDay ==
    /\ gate.pc = "calling"
    /\ file.daily_request_count = 1
    /\ Len(admits) >= 1
    /\ admits[Len(admits)].newday
    /\ issued.run > Headroom
    /\ issued.n = 1

\* the quota state file holds the date of t and a count at the daily cap
SpentOn(t) ==
    /\ file.kind = "ok"
    /\ file.daily_reset_date # Null
    /\ file.daily_reset_date.date = t \div SecondsPerDay
    /\ file.daily_request_count >= MAX_REQUESTS_PER_DAY

\* C22: when the daily count has reached the daily cap on the current
\* date, the admission rejects at once: it does not sleep, records no
\* timestamp and leaves the quota state file as it was.
SpentDayRejectsAtOnce ==
    [][SpentOn(clock) /\ AdmissionStep =>
          /\ ret'.how = "returned"
          /\ ret'.value = ret'.arg
          /\ gate'.pc = "idle"
          /\ clock' = clock
          /\ file' = file
          /\ admits' = admits
          /\ issued' = issued]_vars

\* a call rejected on a day whose count is at the cap, the timestamps of
\* the last admissions still in the file
RejectedOnSpentDay ==
    /\ ret.how = "returned"
    /\ ret.path = "rejected"
    /\ SpentOn(clock)
    /\ file.request_timestamps # <<>>

\* the second that a timestamp of the file denotes
StampSeconds(s) == s.date * SecondsPerDay + s.time

\* C23: after an allowed admission the timestamps of the file all lie
\* within the 60 seconds before the timestamp just recorded, the last of
\* the list, and they are at most MAX_REQUESTS_PER_MINUTE, also when the
\* admission slept before recording.
PersistedWithinWindow ==
    [][AdmissionStep /\ gate'.pc = "calling" =>
          LET stamps == file'.request_timestamps
              recorded == StampSeconds(stamps[Len(stamps)])
          IN /\ Len(stamps) <= MAX_REQUESTS_PER_MINUTE
             /\ \A i \in 1..Len(stamps) :
                   StampSeconds(stamps[i]) > recorded - OneMinute]_vars

\* the company and title of a record, folded
FoldedNames(job) == <<Folded(job.company), Folded(job.title)>>

\* C24 as stated: no board-source record of the batch has a normalized
\* company/title pair, taken from the record itself, that is in the known
\* pair set of the dedup index of the query.
NoRecordWithKnownPair ==
    run.pc = "detail" /\ run.src = "careers_future" =>
        \A i \in 1..Len(run.jobs) : FoldedNames(run.jobs[i]) \notin run.index.pairs

\* C24: the pair check is applied to the listed item before the detail
\* fetch: every board-source record of the batch was fetched for a listed
\* item whose identifier is unknown and whose normalized company/title
\* pair, taken from the listing, is not in the known pair set.
NoRecordOfListedKnownPair ==
    run.pc = "detail" /\ run.src = "careers_future" =>
        /\ \A i \in 1..Len(run.described) :
              \E j \in Unknown \ UnknownWithKnownPair :
                  run.found[j].uuid = run.described[i]
        /\ Len(run.jobs) <= Len(run.described)

\* a board record is in the batch while a listed item under a known pair
\* was left out
RecordBesideDroppedRepost ==
    /\ run.pc = "detail"
    /\ run.src = "careers_future"
    /\ run.jobs # <<>>
    /\ UnknownWithKnownPair # {}
    /\ \A j \in UnknownWithKnownPair : run.found[j].uuid \notin Range(run.described)

\* a detail response without description arrives
NoDescriptionStep ==
    \E d \in FetchSeconds, uuid \in Ids :
        DetailFetch(d, "nodesc", uuid, NoNames)

\* the text-generation call of a detail fetch ends and the gate returns
\* the raw text
DegradedStep ==
    /\ run.pc = "detail"
    /\ gate.pc = "calling"
    /\ gate'.pc = "idle"
    /\ ret'.how = "returned"
    /\ ret'.value = gate.text

Fresh(page, collected) ==
    {page.li[i] : i \in 1..Len(page.li)} \ ({None} \union
    {collected[i] : i \in 1..Len(collected)})

\* C26: the listing of the guest source asks for the pages at the offsets
\* 0, 10, 20, ...; the first page that has no list item, or has list items
\* but no identifier that was not collected already, or could not be fetched,
\* ends it with the identifiers of the earlier pages, and no page is asked
\* for after that.
PagingStopsAtBarrenPage ==
    [][/\ \A i \in 1..Len(listing'.asked) : listing'.asked[i] = 10 * (i - 1)
       /\ /\ listing.pc = "request" /\ listing'.pc # "request"
          /\ \/ http.res = "failed"
             \/ listing'.page.li = <<>>
             \/ /\ listing'.page.li # <<>>
                /\ Fresh(listing'.page, listing.job_ids_list) = {}
          => /\ listing'.pc = "returned"
             /\ listing'.job_ids_list = listing.job_ids_list
       /\ listing.pc = "returned" => listing' = listing /\ http' = http]_vars

\* a second page that repeats the identifiers of the first has ended the
\* listing
StoppedAtRepeatedPage ==
    /\ listing.pc = "returned"
    /\ listing.cause = "nothing_new"
    /\ listing.asked = <<0, 10>>
    /\ listing.job_ids_list # <<>>


\* C27: after a search response that was read, the listing of the board
\* source goes on to another request exactly when the response carried a
\* next-page link, and that request is to this link, whatever the total
\* reported and the number of items of the page; each request is to the
\* current URL; when a request fails the items of the pages read before it
\* are returned.
NextLinkAloneControlsLoop ==
    [][search.pc = "search" /\ search'.total_api_calls_for_search
                                  = search.total_api_calls_for_search + 1
       => /\ search'.posted = search.current_search_url
          /\ search'.answer \notin SearchErrors
             => /\ search'.pc = "search" <=> search'.linked # None
                /\ search'.pc = "search"
                   => search'.current_search_url = search'.linked
          /\ search'.answer \in SearchErrors
             => /\ search'.pc = "returned"
                /\ search'.value = search.all_job_items]_vars

\* after a first page with an item, a page without items and with a total
\* of 0 carried a link: the loop goes on, to that link
FollowedLinkOfEmptyPage ==
    /\ search.pc = "search"
    /\ search.answer = "ok"
    /\ search.held = 0
    /\ search.total = 0
    /\ search.linked \in Links
    /\ search.current_search_url = search.linked
    /\ search.all_job_items # <<>>



AdmittedOnFirstDate ==
    OneLeftFile.daily_request_count
    + Cardinality({i \in 1..Len(procs.granted) :
                      DateOf(procs.granted[i]) = DateOf(Midnight - Lead)})

\* the count that a process which read the file f at time t saves
CountSavedFrom(f, t) ==
    IF f.daily_reset_date.date < DateOf(t) THEN 1 ELSE f.daily_request_count + 1

\* C29: with two processes in check_and_enforce_quota and no lock, the state
\* that a process saves is the state it read plus its own call, whatever the
\* other process saved in between: the count is the count read plus one (one
\* on a new day), and every timestamp but the new one was in the file as
\* read.  So a state is reachable with more calls allowed on a date than
\* the daily cap, and with two allowed calls closer than the minimum
\* spacing.
SaveOverwritesOtherProcess ==
    [][\A p \in Procs :
          Len(procs'.granted) > Len(procs.granted) /\ procs'.at[p] # procs.at[p]
          => /\ file'.daily_request_count
                  = CountSavedFrom(procs.seen[p], procs.at[p])
             /\ \A i \in 1..Len(file'.request_timestamps) - 1 :
                   \E j \in 1..Len(procs.seen[p].request_timestamps) :
                      file'.request_timestamps[i]
                          = procs.seen[p].request_timestamps[j]]_vars

\* on the date of the start more calls were allowed than the daily cap,
\* while the file counts no more than the cap, and two of the calls allowed
\* are closer than the minimum spacing
OverAdmittedAndTooClose ==
    /\ AdmittedOnFirstDate > MAX_REQUESTS_PER_DAY
    /\ file.daily_request_count <= MAX_REQUESTS_PER_DAY
    /\ \E i, j \in 1..Len(procs.granted) :
          /\ i < j
          /\ procs.granted[j] - procs.granted[i] < SECONDS_BETWEEN_REQUESTS
          /\ procs.granted[i] - procs.granted[j] < SECONDS_BETWEEN_REQUESTS


\* C30: in the batch that a query hands to the store write no identifier
\* occurs twice, whichever the source, also when the listing holds an
\* identifier more than once.
NoIdentifierTwice ==
    \A i, j \in 1..Len(run.jobs) :
        run.jobs[i].job_id = run.jobs[j].job_id => i = j


\* C31: in one process, once a call was rejected for the daily cap, every
\* later admission on the same date rejects too, whatever calls, answers and
\* releases came in between, and leaves the quota state file as it was.
RejectedForTheDay ==
    [][ret.spent.date = DateOf(clock) /\ AdmissionStep =>
          /\ ret'.how = "returned"
          /\ ret'.path = "rejected"
          /\ gate'.pc = "idle"
          /\ file' = file]_vars

\* in a run that issued calls, a call was rejected for the daily cap, and
\* so was a later call on the same date
RejectedAgain ==
    /\ ret.path = "rejected"
    /\ ret.spent.date = DateOf(clock)
    /\ ret.spent.again
    /\ issued.run > 0



\* C32: whatever the server answers, the listing of the guest source asks
\* for at most LINKEDIN_MAX_START \div 10 + 1 pages, makes at most
\* MAX_RETRIES + 1 requests for each of them, and returns.
ListingTerminates ==
    /\ [](/\ Len(listing.asked) <= LINKEDIN_MAX_START \div 10 + 1
          /\ http.attempts <= MAX_RETRIES + 1
          /\ Len(http.answers) = http.attempts)
    /\ <>(listing.pc = "returned")

\* the listing returned after it had asked for every page up to
\* LINKEDIN_MAX_START, the last of them answered at the last request allowed
ReturnedAfterLastPage ==
    /\ listing.pc = "returned"
    /\ listing.cause = "max_start"
    /\ Len(listing.asked) = LINKEDIN_MAX_START \div 10 + 1
    /\ http.attempts = MAX_RETRIES + 1
    /\ http.res = "response"


\* C33: a failure of the store read does not abort a query of either
\* source: no query ends with the exception of the read, the query goes on
\* to its detail loop.
StoreReadFailureTolerated ==
    ~(run.pc = "aborted" /\ run.phase = "query" /\ run.exc = "StoreError")

----------------------------------------------------------------------------
(* The resume parser: parse_resume_with_ai and its copy of the quota      *)
(* functions, which differ from the scraper's by the daily cap only       *)

\* MAX_REQUESTS_PER_DAY of parse_resume_with_ai.py
ResumeMaxRequestsPerDay == 19

\* what client.models.generate_content raised
ModelError == "ModelError"

\* "return None": how the call ended says so, no value comes with it
ReturnedNone(p, b) ==
    [NoReturn EXCEPT !.how = "returned None", !.path = p, !.before = b]

\* parse_resume_with_ai up to client.models.generate_content: the admission,
\* and the return of None on rejection.  The call begins at time now.
ParseBegin(resume_text, now) ==
    /\ gate.pc = "idle"
    /\ LET r == check_and_enforce_quota(file, disk # "failing", now,
                                        ResumeMaxRequestsPerDay)
       IN /\ file' = r.file
          /\ clock' = r.clock
          /\ IF r.raised # "none"
             THEN /\ ret' = Of(resume_text, Raised(r.raised, "admit", file.kind))
                  /\ UNCHANGED <<gate, admits, issued>>
             ELSE IF ~r.allowed
             THEN /\ ret' = Of(resume_text, ReturnedNone("rejected", file.kind))
                  /\ UNCHANGED <<gate, admits, issued>>
             ELSE /\ ret' = Of(resume_text, Pending(file.kind))
                  /\ gate' = [pc |-> "calling", text |-> resume_text]
                  /\ admits' = Remember(admits, [t |-> r.stamp, newday |-> r.newday,
                                              full |-> r.full, oldest |-> r.oldest])
                  /\ issued' = IssueAt(issued, r.clock)
    /\ UNCHANGED disk

\* client.models.generate_content ends: response.text is returned as it
\* is, or the except branch runs the compensation and raises again.  An
\* exception of the compensation leaves the function in place of the
\* model's.
ParseEnd(outcome) ==
    /\ gate.pc = "calling"
    /\ gate' = Idle
    /\ IF ~outcome.raises
       THEN /\ ret' = Of(gate.text, Returned(outcome.text, "parsed", ret.before))
            /\ UNCHANGED <<file, issued>>
       ELSE LET r == release_quota(file, disk # "failing")
            IN /\ file' = r.file
               /\ IF r.raised # "none"
                  THEN /\ ret' = Of(gate.text, Raised(r.raised, "release", ret.before))
                       /\ UNCHANGED issued
                  ELSE /\ ret' = Of(gate.text, Raised(ModelError, "released", ret.before))
                       /\ issued' = [issued EXCEPT !.n = Max0(0, @ - 1)]
    /\ UNCHANGED <<clock, disk, admits>>

\* resume_parser.main parses a resume
Parse ==
    /\ issued.run < MaxCalls
    /\ ParseBegin(RawText, clock)
    /\ UNCHANGED <<run, store, trip, http, listing, search, procs>>

\* the model call of the parser ends
ParseAnswer ==
    /\ \E outcome \in Outcomes : ParseEnd(outcome)
    /\ UNCHANGED <<run, store, trip, http, listing, search, procs>>

\* a file left by an earlier run of the same day, Headroom admissions short
\* of the parser's daily cap
ResumePriorFile ==
    [PriorFile EXCEPT !.daily_request_count = ResumeMaxRequestsPerDay - Headroom]

InitResume == Start({NoFile, CorruptFile, ResumePriorFile}, {NoJobs})

NextResume == Parse \/ ParseAnswer \/ Pass

\* the resume parser alone, every save succeeds
SpecResume == InitResume /\ [][NextResume]_vars

\* the parser's admission rejected the call
ParseRejected ==
    /\ ParseBegin(RawText, clock)
    /\ ret'.path = "rejected"

\* the model call of the parser failed
ParseFailed ==
    /\ gate.pc = "calling"
    /\ ret'.path \in {"release", "released"}

\* C34: when the admission rejects, parse_resume_with_ai returns None and
\* the model is not called; when the model call fails after the admission,
\* the daily count of the file goes down by one (not below zero), the
\* timestamps and the reset date stay, and the model's error leaves the
\* function.
ParserCallSite ==
    [][/\ ParseRejected =>
            /\ ret'.how = "returned None"
            /\ gate' = gate
       /\ ParseFailed =>
            /\ file' = [file EXCEPT !.daily_request_count = Max0(0, @ - 1)]
            /\ ret'.how = "raised"
            /\ ret'.exc = ModelError]_vars

============================================================================
